---- MODULE Spec2Model ----
(***************************************************************************)
(* Quick-Survey: the survey filling page (SurveyPage), its confirm dialog  *)
(* and the condition evaluator isQuestionVisible.                          *)
(*                                                                         *)
(* JavaScript values are tagged so that === and String() keep their        *)
(* meaning: a scalar is [t, v] with t the typeof and v the printed form.   *)
(***************************************************************************)
EXTENDS Integers, Sequences, FiniteSets, TLC

\* ------------------------------------------------------------------ bounds
MaxTextLen == 1      \* longest text typed into a Textarea
MaxTokens  == 1      \* number of tokens the Turnstile widget hands out
MaxCalls   == 2      \* cap on submitSurvey calls in flight at one time
MaxElapsed == 1      \* most seconds between opening the form and finalizing
MaxMinute  == 2      \* latest minute of a stored timestamp
MaxAdmins  == 2      \* admins calling decide on one submission at the same time
MaxViews   == 2      \* record_first_view calls made by one admin
MaxFill    == 3      \* longest fill time of a request, in seconds
MaxAnswers == 2      \* most answers in a request
MaxImages  == 2      \* the maxImages prop of ImageUploader
MaxFiles   == 2      \* files in one selection or drop
MaxUrls    == 3      \* files handed to uploadImage over a run

\* --------------------------------------------------------------- JS values
Str(s)    == [t |-> "string", v |-> s]
Bool(b)   == [t |-> "boolean", v |-> IF b THEN "true" ELSE "false"]
Undefined == [t |-> "undefined", v |-> "undefined"]

\* String(x): the canonical string form; a string is returned as it is.
String(x) == [t |-> "string", v |-> x.v]

\* Array.prototype.includes with strict equality
Includes(arr, x) == \E i \in 1..Len(arr) : arr[i] = x

\* Texts are sequences of characters; " " is the only whitespace used.
Chars == {" ", "a"}
Texts == UNION {[1..n -> Chars] : n \in 0..MaxTextLen}

\* what is typed into the name Input: nothing, a blank, a name
Names == {<<>>, <<" ">>, <<"a">>}

RECURSIVE TrimStart(_)
TrimStart(s) == IF s # <<>> /\ Head(s) = " " THEN TrimStart(Tail(s)) ELSE s

RECURSIVE TrimEnd(_)
TrimEnd(s) ==
    IF s # <<>> /\ s[Len(s)] = " " THEN TrimEnd(SubSeq(s, 1, Len(s) - 1)) ELSE s

\* String.prototype.trim
Trim(s) == TrimEnd(TrimStart(s))

\* ------------------------------------------------- AnswerSubmit['content']
\* k names the one property the object carries; the others are undefined.
ValueContent(x)   == [k |-> "value",  value |-> x, values |-> <<>>, text |-> <<>>, images |-> <<>>]
ValuesContent(vs) == [k |-> "values", value |-> Undefined, values |-> vs, text |-> <<>>, images |-> <<>>]
TextContent(s)    == [k |-> "text",   value |-> Undefined, values |-> <<>>, text |-> s, images |-> <<>>]
ImagesContent(im) == [k |-> "images", value |-> Undefined, values |-> <<>>, text |-> <<>>, images |-> im]

\* content.value (undefined unless the object has the property)
ValueOf(c) == IF c.k = "value" THEN c.value ELSE Undefined

\* ------------------------------------------------- Map<number, content>
\* A Map keeps insertion order; set() on a present key keeps its place.
MapHas(m, key) == \E i \in 1..Len(m) : m[i].question_id = key
MapGet(m, key) == m[CHOOSE i \in 1..Len(m) : m[i].question_id = key].content
MapSet(m, key, c) ==
    IF MapHas(m, key)
    THEN [i \in 1..Len(m) |->
            IF m[i].question_id = key THEN [question_id |-> key, content |-> c] ELSE m[i]]
    ELSE Append(m, [question_id |-> key, content |-> c])
MapKeys(m) == {m[i].question_id : i \in 1..Len(m)}

\* ---------------------------------------------------------------- surveys
NoCondition == [has |-> FALSE, depends_on |-> 0, isArray |-> FALSE, show_when |-> <<>>]
\* {depends_on, show_when: scalar}
When(dep, x) == [has |-> TRUE, depends_on |-> dep, isArray |-> FALSE, show_when |-> <<x>>]
\* {depends_on, show_when: [scalars]}
WhenAny(dep, xs) == [has |-> TRUE, depends_on |-> dep, isArray |-> TRUE, show_when |-> xs]

Q(id, type, req, opts, cond) ==
    [id |-> id, type |-> type, is_required |-> req, options |-> opts, condition |-> cond]

\* spec.md section 8, property 3: boolean A (id 1), B shown when A is "true";
\* C carries a show_when that is the boolean true rather than a string.
SurveyBool ==
    << Q(1, "boolean", TRUE, <<>>, NoCondition),
       Q(2, "text", TRUE, <<>>, When(1, Str("true"))),
       Q(3, "text", FALSE, <<>>, When(1, Bool(TRUE))) >>

\* a chain of conditions: 22 depends on 21, 23 depends on 22
SurveyChain ==
    << Q(21, "single", TRUE, <<"A", "B">>, NoCondition),
       Q(22, "single", FALSE, <<"X", "Y">>, When(21, Str("A"))),
       Q(23, "text", FALSE, <<>>, When(22, Str("X"))) >>

\* spec.md section 8, property 8, with a collection as show_when and a
\* multiple-choice last question
SurveySkip ==
    << Q(31, "single", TRUE, <<"A", "B", "C">>, NoCondition),
       Q(32, "multiple", TRUE, <<"X", "Y">>, WhenAny(31, <<Str("A"), Str("C")>>)),
       Q(33, "multiple", FALSE, <<"X">>, NoCondition) >>

\* a condition on a later question (the served order is not validated)
SurveyForward ==
    << Q(41, "text", TRUE, <<>>, When(43, Str("A"))),
       Q(42, "boolean", FALSE, <<>>, NoCondition),
       Q(43, "single", FALSE, <<"A", "B">>, NoCondition) >>

\* a self reference, a two-cycle and a condition on a multiple-choice source
SurveyCycle ==
    << Q(51, "single", FALSE, <<"A">>, When(51, Str("A"))),
       Q(52, "single", FALSE, <<"A">>, When(53, Str("A"))),
       Q(53, "single", FALSE, <<"A">>, When(52, Str("A"))),
       Q(54, "multiple", FALSE, <<"A">>, NoCondition),
       Q(55, "text", FALSE, <<>>, When(54, Str("A"))) >>

Surveys == {SurveyBool, SurveyChain, SurveySkip, SurveyForward, SurveyCycle}

NullSurvey == <<>>

\* SecurityConfig | null, as getSecurityConfig().catch(() => null) yields it
NullConfig == [isNull |-> TRUE, turnstile_enabled |-> FALSE]
Config(en) == [isNull |-> FALSE, turnstile_enabled |-> en]
SecurityConfigs == {NullConfig, Config(TRUE), Config(FALSE)}

NoToken == 0

\* Date.now() / 1000 when the page is mounted
MountTime == 5

\* ------------------------------------------------------ stored submission
\* a nullable ISO timestamp, kept to the minute and the second
NullStamp   == [isNull |-> TRUE, minute |-> 0, second |-> 0]
Stamp(m, sec) == [isNull |-> FALSE, minute |-> m, second |-> sec]

\* a nullable string
NullString == [isNull |-> TRUE, s |-> ""]
Some(str)  == [isNull |-> FALSE, s |-> str]

NoSubmission ==
    [status |-> "none", player_name |-> "", submitted_at |-> NullStamp,
     first_viewed_at |-> NullStamp, reviewed_at |-> NullStamp,
     review_note |-> NullString, fill_duration |-> NullString]

NoAdmins == <<>>
NoItems  == <<>>
NoGate   == <<>>
NoUploader == <<>>

\* ------------------------------------------------------------------ state
VARIABLES
    survey,          \* useState<PublicSurvey | null>: the question list
    loading,         \* useState(true)
    error,           \* useState<string | null>: "" stands for null
    currentIndex,    \* useState(0)
    answers,         \* useState(new Map())
    playerName,      \* useState('')
    submitting,      \* useState(false)
    showConfirm,     \* useState(false)
    submitted,       \* useState(false)
    securityConfig,  \* useState<SecurityConfig | null>
    turnstileToken,  \* useState<string | null>: NoToken stands for null
    calls,           \* submitSurvey calls awaiting their response (payloads)
    tokensIssued,    \* tokens the Turnstile widget has produced so far
    toast,           \* what the last handler reported through toast.error
    lastEvent,       \* the last handler that ran
    evalResult,      \* the last result returned by isQuestionVisible
    startTime,       \* useState(() => Date.now() / 1000)
    deployment,      \* whether the deployment has bot verification enabled
    submission,      \* the stored submission a review or a status query is about
    admins,          \* the review requests of each administrator
    items,           \* the steps StatusTimeline renders
    gate,            \* the server's handling of one submit request, and its tables
    uploader         \* an ImageUploader: its value prop, its state, its uploads

\* the state outside the survey page
review == <<submission, admins, items, gate, uploader>>

vars == <<survey, loading, error, currentIndex, answers, playerName, submitting,
          showConfirm, submitted, securityConfig, turnstileToken, calls,
          tokensIssued, toast, lastEvent, evalResult, startTime, deployment,
          submission, admins, items, gate, uploader>>

\* a toast.error: which message, the number it prints, and the questions
\* the text identifies
NoToast == [msg |-> "", n |-> 0, names |-> {}]
Toast(m, k, ids) == [msg |-> m, n |-> k, names |-> ids]

NoEval == [done |-> FALSE, question |-> Q(0, "text", FALSE, <<>>, NoCondition), visible |-> FALSE]

\* ---------------------------------------------------- condition evaluator
isQuestionVisibleNoCoercion(question, currentAnswers) ==
    IF ~question.condition.has THEN TRUE
    ELSE IF ~MapHas(currentAnswers, question.condition.depends_on) THEN FALSE
    ELSE LET answerValue == ValueOf(MapGet(currentAnswers, question.condition.depends_on))
             showWhen    == question.condition.show_when
         IN IF answerValue = Undefined THEN FALSE
            ELSE IF question.condition.isArray
                 THEN Includes(showWhen, answerValue)
                 ELSE answerValue = showWhen[1]

isQuestionVisibleUnanswered(question, currentAnswers) ==
    IF ~question.condition.has THEN TRUE
    ELSE IF ~MapHas(currentAnswers, question.condition.depends_on) THEN TRUE
    ELSE LET answerValue  == ValueOf(MapGet(currentAnswers, question.condition.depends_on))
             currentValue == String(answerValue)
             showWhen     == question.condition.show_when
         IN IF question.condition.isArray
            THEN Includes(showWhen, currentValue)
            ELSE currentValue = showWhen[1]

isQuestionVisibleNoDefault(question, currentAnswers) ==
    IF ~MapHas(currentAnswers, question.condition.depends_on) THEN FALSE
    ELSE LET answerValue  == ValueOf(MapGet(currentAnswers, question.condition.depends_on))
             currentValue == String(answerValue)
             showWhen     == question.condition.show_when
         IN IF answerValue = Undefined THEN FALSE
            ELSE IF question.condition.isArray
                 THEN Includes(showWhen, currentValue)
                 ELSE showWhen # <<>> /\ currentValue = showWhen[1]

isQuestionVisible(question, currentAnswers) ==
    IF ~question.condition.has THEN TRUE
    ELSE IF ~MapHas(currentAnswers, question.condition.depends_on) THEN FALSE
    ELSE LET answerValue  == ValueOf(MapGet(currentAnswers, question.condition.depends_on))
             currentValue == String(answerValue)
             showWhen     == question.condition.show_when
         IN IF answerValue = Undefined THEN FALSE
            ELSE IF question.condition.isArray
                 THEN Includes(showWhen, currentValue)
                 ELSE currentValue = showWhen[1]

VisibleOfUnfiltered(questions, currentAnswers) == questions

\* survey.questions.filter(question => isQuestionVisible(question, answers))
VisibleOf(questions, currentAnswers) ==
    SelectSeq(questions, LAMBDA q : isQuestionVisible(q, currentAnswers))

visibleQuestions == VisibleOf(survey, answers)

\* TLA+ sequences start at 1, currentIndex at 0
HasCurrent      == currentIndex + 1 \in 1..Len(visibleQuestions)
currentQuestionOfAll == survey[currentIndex + 1]

currentQuestion == visibleQuestions[currentIndex + 1]
isLastQuestion  ==
    IF Len(visibleQuestions) > 0 THEN currentIndex = Len(visibleQuestions) - 1 ELSE FALSE
isFirstQuestion == currentIndex = 0

isQuestionAnsweredTruthy(question) ==
    IF ~MapHas(answers, question.id) THEN FALSE
    ELSE LET answer == MapGet(answers, question.id)
         IN CASE question.type \in {"single", "boolean"} ->
                     ValueOf(answer) \notin {Undefined, Str(""), Bool(FALSE)}
              [] question.type = "multiple" -> answer.k = "values" /\ Len(answer.values) > 0
              [] question.type = "text"     -> answer.k = "text" /\ Trim(answer.text) # <<>>
              [] question.type = "image"    -> answer.k = "images" /\ Len(answer.images) > 0
              [] OTHER -> FALSE

isQuestionAnswered(question) ==
    IF ~MapHas(answers, question.id) THEN FALSE
    ELSE LET answer == MapGet(answers, question.id)
         IN CASE question.type \in {"single", "boolean"} ->
                     ValueOf(answer) # Undefined /\ ValueOf(answer) # Str("")
              [] question.type = "multiple" -> answer.k = "values" /\ Len(answer.values) > 0
              [] question.type = "text"     -> answer.k = "text" /\ Trim(answer.text) # <<>>
              [] question.type = "image"    -> answer.k = "images" /\ Len(answer.images) > 0
              [] OTHER -> FALSE

\* ------------------------------------------------------------ rendering
\* SurveyPage returns early while loading, on error, after submit, and when
\* there is no current question; only past these is the form on screen.
FormRendered ==
    /\ ~loading
    /\ error = ""
    /\ ~submitted
    /\ survey # NullSurvey /\ HasCurrent

\* The dialog is modal: while it is open the form behind it takes no input.
FormOperable   == FormRendered /\ ~showConfirm
DialogOperable == FormRendered /\ showConfirm

\* ------------------------------------------------------------- fetchData
\* what getSecurityConfig().catch(() => null) can yield on this deployment:
\* the deployment's setting, or null when the request fails
LoadableConfigs == {c \in SecurityConfigs : c.isNull \/ c.turnstile_enabled = deployment}

fetchDataResolve(surveyData, securityData) ==
    /\ loading /\ survey = NullSurvey /\ error = ""
    /\ survey' = surveyData
    /\ securityConfig' = securityData
    /\ loading' = FALSE
    /\ toast' = NoToast
    /\ lastEvent' = "fetchData"
    /\ UNCHANGED <<error, currentIndex, answers, playerName, submitting, showConfirm,
                   submitted, turnstileToken, calls, tokensIssued, evalResult, startTime, deployment, review>>

fetchDataReject ==
    /\ loading /\ survey = NullSurvey /\ error = ""
    /\ error' = "not_found"
    /\ loading' = FALSE
    /\ toast' = NoToast
    /\ lastEvent' = "fetchData"
    /\ UNCHANGED <<survey, currentIndex, answers, playerName, submitting, showConfirm,
                   submitted, securityConfig, turnstileToken, calls, tokensIssued,
                   evalResult, startTime, deployment, review>>

\* ---------------------------------------------------- handleAnswerChange
handleAnswerChangeDroppingHidden(questionId, content) ==
    /\ LET newAnswers == MapSet(answers, questionId, content)
       IN answers' = SelectSeq(newAnswers,
                        LAMBDA e : \E i \in 1..Len(survey) :
                                      /\ survey[i].id = e.question_id
                                      /\ isQuestionVisible(survey[i], newAnswers))
    /\ toast' = NoToast
    /\ lastEvent' = "answer"
    /\ UNCHANGED <<survey, loading, error, currentIndex, playerName, submitting,
                   showConfirm, submitted, securityConfig, turnstileToken, calls,
                   tokensIssued, evalResult, startTime, deployment, review>>

handleAnswerChangeResettingIndex(questionId, content) ==
    /\ answers' = MapSet(answers, questionId, content)
    /\ currentIndex' = 0
    /\ toast' = NoToast
    /\ lastEvent' = "answer"
    /\ UNCHANGED <<survey, loading, error, playerName, submitting,
                   showConfirm, submitted, securityConfig, turnstileToken, calls,
                   tokensIssued, evalResult, startTime, deployment, review>>

handleAnswerChange(questionId, content) ==
    /\ answers' = MapSet(answers, questionId, content)
    /\ toast' = NoToast
    /\ lastEvent' = "answer"
    /\ UNCHANGED <<survey, loading, error, currentIndex, playerName, submitting,
                   showConfirm, submitted, securityConfig, turnstileToken, calls,
                   tokensIssued, evalResult, startTime, deployment, review>>

\* value passed to QuestionCard: answers.get(currentQuestion.id)
CurrentValue ==
    IF MapHas(answers, currentQuestion.id)
    THEN MapGet(answers, currentQuestion.id)
    ELSE [k |-> "none", value |-> Undefined, values |-> <<>>, text |-> <<>>, images |-> <<>>]

\* RadioGroup onValueChange
SingleChange(v) ==
    /\ FormOperable
    /\ currentQuestion.type = "single"
    /\ Includes(currentQuestion.options, v)
    /\ handleAnswerChange(currentQuestion.id, ValueContent(Str(v)))

\* Switch onCheckedChange: the switch shows boolValue === true and flips it
BooleanChange ==
    /\ FormOperable
    /\ currentQuestion.type = "boolean"
    /\ LET boolValue == ValueOf(CurrentValue)
           checked   == ~(boolValue = Bool(TRUE))
       IN handleAnswerChange(currentQuestion.id, ValueContent(Bool(checked)))

\* Checkbox onCheckedChange of one option
MultipleChange(option) ==
    /\ FormOperable
    /\ currentQuestion.type = "multiple"
    /\ Includes(currentQuestion.options, option)
    /\ LET selectedValues == IF CurrentValue.k = "values" THEN CurrentValue.values ELSE <<>>
           checked   == ~Includes(selectedValues, option)
           newValues == IF checked
                        THEN Append(selectedValues, option)
                        ELSE SelectSeq(selectedValues, LAMBDA v : v # option)
       IN handleAnswerChange(currentQuestion.id, ValuesContent(newValues))

\* Textarea onChange
TextChange(text) ==
    /\ FormOperable
    /\ currentQuestion.type = "text"
    /\ text # (IF CurrentValue.k = "text" THEN CurrentValue.text ELSE <<>>)
    /\ handleAnswerChange(currentQuestion.id, TextContent(text))

\* ------------------------------------------------- handleNext / handlePrev
UnansweredRequired ==
    SelectSeq(visibleQuestions, LAMBDA q : q.is_required /\ ~isQuestionAnswered(q))

handleNextNoRequiredCheck ==
    /\ lastEvent' = "next"
    /\ IF survey = NullSurvey \/ Len(visibleQuestions) = 0
       THEN /\ toast' = NoToast
            /\ UNCHANGED <<currentIndex, showConfirm>>
       ELSE IF isLastQuestion
       THEN IF Len(UnansweredRequired) > 0
            THEN /\ toast' = Toast("required_remaining", Len(UnansweredRequired), {})
                 /\ UNCHANGED <<currentIndex, showConfirm>>
            ELSE /\ showConfirm' = TRUE
                 /\ toast' = NoToast
                 /\ UNCHANGED currentIndex
       ELSE /\ currentIndex' = currentIndex + 1
            /\ toast' = NoToast
            /\ UNCHANGED showConfirm
    /\ UNCHANGED <<survey, loading, error, answers, playerName, submitting, submitted,
                   securityConfig, turnstileToken, calls, tokensIssued, evalResult, startTime, deployment, review>>

handleNextNoFinalCheck ==
    /\ lastEvent' = "next"
    /\ IF survey = NullSurvey \/ Len(visibleQuestions) = 0
       THEN /\ toast' = NoToast
            /\ UNCHANGED <<currentIndex, showConfirm>>
       ELSE IF HasCurrent /\ currentQuestion.is_required /\ ~isQuestionAnswered(currentQuestion)
       THEN /\ toast' = Toast("complete_current", 0, {currentQuestion.id})
            /\ UNCHANGED <<currentIndex, showConfirm>>
       ELSE IF isLastQuestion
       THEN /\ showConfirm' = TRUE
            /\ toast' = NoToast
            /\ UNCHANGED currentIndex
       ELSE /\ currentIndex' = currentIndex + 1
            /\ toast' = NoToast
            /\ UNCHANGED showConfirm
    /\ UNCHANGED <<survey, loading, error, answers, playerName, submitting, submitted,
                   securityConfig, turnstileToken, calls, tokensIssued, evalResult, startTime, deployment, review>>

handleNext ==
    /\ lastEvent' = "next"
    /\ IF survey = NullSurvey \/ Len(visibleQuestions) = 0
       THEN /\ toast' = NoToast
            /\ UNCHANGED <<currentIndex, showConfirm>>
       ELSE IF HasCurrent /\ currentQuestion.is_required /\ ~isQuestionAnswered(currentQuestion)
       THEN /\ toast' = Toast("complete_current", 0, {currentQuestion.id})
            /\ UNCHANGED <<currentIndex, showConfirm>>
       ELSE IF isLastQuestion
       THEN IF Len(UnansweredRequired) > 0
            THEN /\ toast' = Toast("required_remaining", Len(UnansweredRequired), {})
                 /\ UNCHANGED <<currentIndex, showConfirm>>
            ELSE /\ showConfirm' = TRUE
                 /\ toast' = NoToast
                 /\ UNCHANGED currentIndex
       ELSE /\ currentIndex' = currentIndex + 1
            /\ toast' = NoToast
            /\ UNCHANGED showConfirm
    /\ UNCHANGED <<survey, loading, error, answers, playerName, submitting, submitted,
                   securityConfig, turnstileToken, calls, tokensIssued, evalResult, startTime, deployment, review>>

NextClick == FormOperable /\ handleNext

handlePrevRequiringAnswer ==
    /\ lastEvent' = "prev"
    /\ toast' = NoToast
    /\ IF ~isFirstQuestion /\ ~(currentQuestion.is_required /\ ~isQuestionAnswered(currentQuestion))
       THEN currentIndex' = currentIndex - 1
       ELSE UNCHANGED currentIndex
    /\ UNCHANGED <<survey, loading, error, answers, playerName, submitting, showConfirm,
                   submitted, securityConfig, turnstileToken, calls, tokensIssued,
                   evalResult, startTime, deployment, review>>

handlePrev ==
    /\ lastEvent' = "prev"
    /\ toast' = NoToast
    /\ IF ~isFirstQuestion
       THEN currentIndex' = currentIndex - 1
       ELSE UNCHANGED currentIndex
    /\ UNCHANGED <<survey, loading, error, answers, playerName, submitting, showConfirm,
                   submitted, securityConfig, turnstileToken, calls, tokensIssued,
                   evalResult, startTime, deployment, review>>

PrevClick == FormOperable /\ handlePrev

\* ---------------------------------------------------------- ConfirmDialog
turnstileEnabled  == ~securityConfig.isNull /\ securityConfig.turnstile_enabled
turnstileVerified == turnstileToken # NoToken
canSubmit == Trim(playerName) # <<>> /\ (~turnstileEnabled \/ turnstileVerified)

\* disabled attribute of the submit button
SubmitDisabledIgnoringSubmitting == ~canSubmit

SubmitDisabled == submitting \/ ~canSubmit

\* Input onChange (disabled while submitting)
PlayerNameChange(name) ==
    /\ DialogOperable
    /\ ~submitting
    /\ name # playerName
    /\ playerName' = name
    /\ toast' = NoToast
    /\ lastEvent' = "name"
    /\ UNCHANGED <<survey, loading, error, currentIndex, answers, submitting, showConfirm,
                   submitted, securityConfig, turnstileToken, calls, tokensIssued,
                   evalResult, startTime, deployment, review>>

\* onOpenChange(false): the cancel button, or the dialog being dismissed
CloseDialog ==
    /\ DialogOperable
    /\ showConfirm' = FALSE
    /\ toast' = NoToast
    /\ lastEvent' = "close"
    /\ UNCHANGED <<survey, loading, error, currentIndex, answers, playerName, submitting,
                   submitted, securityConfig, turnstileToken, calls, tokensIssued,
                   evalResult, startTime, deployment, review>>

\* Turnstile callback -> onTurnstileVerify = setTurnstileToken
TurnstileVerify ==
    /\ DialogOperable
    /\ turnstileEnabled
    /\ tokensIssued < MaxTokens
    /\ tokensIssued' = tokensIssued + 1
    /\ turnstileToken' = tokensIssued + 1
    /\ toast' = NoToast
    /\ lastEvent' = "verify"
    /\ UNCHANGED <<survey, loading, error, currentIndex, answers, playerName, submitting,
                   showConfirm, submitted, securityConfig, calls, evalResult, startTime, deployment, review>>

\* ----------------------------------------------------------- handleSubmit
\* Array.from(answers.entries()).filter(...).map(...)
PayloadAnswersUnfiltered == answers

PayloadAnswers ==
    LET visibleQuestionIds == {visibleQuestions[i].id : i \in 1..Len(visibleQuestions)}
    IN SelectSeq(answers, LAMBDA e : e.question_id \in visibleQuestionIds)

submitDataWithoutToken ==
    [player_name     |-> Trim(playerName),
     answers         |-> PayloadAnswers,
     turnstile_token |-> NoToken,
     start_time      |-> startTime]

submitData ==
    [player_name     |-> Trim(playerName),
     answers         |-> PayloadAnswers,
     turnstile_token |-> turnstileToken,
     start_time      |-> startTime]

handleSubmitNoTokenCheck ==
    IF survey = NullSurvey
    THEN /\ toast' = NoToast
         /\ UNCHANGED <<submitting, calls>>
    ELSE IF Trim(playerName) = <<>>
    THEN /\ toast' = Toast("enter_name", 0, {})
         /\ UNCHANGED <<submitting, calls>>
    ELSE /\ submitting' = TRUE
         /\ calls' = Append(calls, submitData)
         /\ toast' = NoToast

\* up to the await of submitSurvey
handleSubmit ==
    IF survey = NullSurvey
    THEN /\ toast' = NoToast
         /\ UNCHANGED <<submitting, calls>>
    ELSE IF Trim(playerName) = <<>>
    THEN /\ toast' = Toast("enter_name", 0, {})
         /\ UNCHANGED <<submitting, calls>>
    ELSE IF turnstileEnabled /\ turnstileToken = NoToken
    THEN /\ toast' = Toast("complete_verification", 0, {})
         /\ UNCHANGED <<submitting, calls>>
    ELSE /\ submitting' = TRUE
         /\ calls' = Append(calls, submitData)
         /\ toast' = NoToast

\* a click on the submit button; a disabled button runs no handler
ConfirmClick ==
    /\ DialogOperable
    /\ Len(calls) < MaxCalls
    /\ IF SubmitDisabled
       THEN /\ lastEvent' = "submit_disabled"
            /\ toast' = NoToast
            /\ UNCHANGED <<submitting, calls>>
       ELSE /\ lastEvent' = "submit"
            /\ handleSubmit
    /\ UNCHANGED <<survey, loading, error, currentIndex, answers, playerName, showConfirm,
                   submitted, securityConfig, turnstileToken, tokensIssued, evalResult,
                   startTime, deployment, review>>

RemoveAt(seq, i) == SubSeq(seq, 1, i - 1) \o SubSeq(seq, i + 1, Len(seq))

\* submitSurvey resolved: the rest of the try block, then finally
submitResolve(i) ==
    /\ i \in 1..Len(calls)
    /\ calls' = RemoveAt(calls, i)
    /\ submitted' = TRUE
    /\ showConfirm' = FALSE
    /\ submitting' = FALSE
    /\ toast' = NoToast
    /\ lastEvent' = "resolved"
    /\ UNCHANGED <<survey, loading, error, currentIndex, answers, playerName,
                   securityConfig, turnstileToken, tokensIssued, evalResult, startTime, deployment, review>>

\* submitSurvey rejected: catch, then finally
submitReject(i) ==
    /\ i \in 1..Len(calls)
    /\ calls' = RemoveAt(calls, i)
    /\ toast' = Toast("submit_failed", 0, {})
    /\ submitting' = FALSE
    /\ lastEvent' = "rejected"
    /\ UNCHANGED <<survey, loading, error, currentIndex, answers, playerName, showConfirm,
                   submitted, securityConfig, turnstileToken, tokensIssued, evalResult, startTime, deployment, review>>

\* ------------------------------------------------------------------- Spec
Init ==
    /\ survey = NullSurvey
    /\ loading = TRUE
    /\ error = ""
    /\ currentIndex = 0
    /\ answers = <<>>
    /\ playerName = <<>>
    /\ submitting = FALSE
    /\ showConfirm = FALSE
    /\ submitted = FALSE
    /\ securityConfig = NullConfig
    /\ turnstileToken = NoToken
    /\ calls = <<>>
    /\ tokensIssued = 0
    /\ toast = NoToast
    /\ lastEvent = "mount"
    /\ evalResult = NoEval
    /\ startTime = MountTime
    /\ deployment \in BOOLEAN
    /\ submission = NoSubmission
    /\ admins = NoAdmins
    /\ items = NoItems
    /\ gate = NoGate
    /\ uploader = NoUploader

Next ==
    \/ \E s \in Surveys, c \in LoadableConfigs : fetchDataResolve(s, c)
    \/ fetchDataReject
    \/ \E v \in {"A", "B", "C", "X", "Y"} : SingleChange(v)
    \/ BooleanChange
    \/ \E o \in {"A", "X", "Y"} : MultipleChange(o)
    \/ \E t \in Texts : TextChange(t)
    \/ NextClick
    \/ PrevClick
    \/ \E n \in Names : PlayerNameChange(n)
    \/ CloseDialog
    \/ TurnstileVerify
    \/ ConfirmClick
    \/ \E i \in 1..MaxCalls : submitResolve(i)
    \/ \E i \in 1..MaxCalls : submitReject(i)

Spec == Init /\ [][Next]_vars

\* --------------------------------- the evaluator on arbitrary answer maps
AbsentContent ==
    [k |-> "none", value |-> Undefined, values |-> <<>>, text |-> <<>>, images |-> <<>>]

EvalContents ==
    { ValueContent(Str("A")), ValueContent(Str("X")), ValueContent(Str("true")),
      ValueContent(Bool(TRUE)), ValueContent(Bool(FALSE)), ValueContent(Undefined),
      ValuesContent(<<"A">>), TextContent(<<"a">>), ImagesContent(<<"u">>),
      AbsentContent }

DependencyIds(s) == {s[i].condition.depends_on : i \in {j \in 1..Len(s) : s[j].condition.has}}

\* every Map holding, for each question others depend on, any content or none
EvalAnswerMaps(s) ==
    { SelectSeq([i \in 1..Len(s) |-> [question_id |-> s[i].id, content |-> f[i]]],
                LAMBDA e : e.content.k # "none") :
        f \in { g \in [1..Len(s) -> EvalContents] :
                  \A i \in 1..Len(s) : s[i].id \notin DependencyIds(s) => g[i] = AbsentContent } }

EvalInit ==
    /\ survey \in Surveys
    /\ answers \in EvalAnswerMaps(survey)
    /\ loading = FALSE
    /\ error = ""
    /\ currentIndex = 0
    /\ playerName = <<>>
    /\ submitting = FALSE
    /\ showConfirm = FALSE
    /\ submitted = FALSE
    /\ securityConfig = NullConfig
    /\ turnstileToken = NoToken
    /\ calls = <<>>
    /\ tokensIssued = 0
    /\ toast = NoToast
    /\ lastEvent = "mount"
    /\ evalResult = NoEval
    /\ startTime = MountTime
    /\ deployment = FALSE
    /\ submission = NoSubmission
    /\ admins = NoAdmins
    /\ items = NoItems
    /\ gate = NoGate
    /\ uploader = NoUploader

Evaluate(i) ==
    /\ i \in 1..Len(survey)
    /\ evalResult' = [done |-> TRUE, question |-> survey[i],
                      visible |-> isQuestionVisible(survey[i], answers)]
    /\ UNCHANGED <<survey, loading, error, currentIndex, answers, playerName, submitting,
                   showConfirm, submitted, securityConfig, turnstileToken, calls,
                   tokensIssued, toast, lastEvent, startTime, deployment, review>>

EvalNext == \E i \in 1..5 : Evaluate(i)

EvalSpec == EvalInit /\ [][EvalNext]_vars

\* ======================================================== StatusTimeline
\* the stored timestamps, to the second
Stamps         == {Stamp(m, sec) : m \in 1..MaxMinute, sec \in 0..1}
NullableStamps == Stamps \cup {NullStamp}

\* the submissions a status query can return
Submissions ==
    [status          : {"pending", "approved", "rejected"},
     player_name     : {"Steve"},
     submitted_at    : Stamps,
     first_viewed_at : NullableStamps,
     reviewed_at     : NullableStamps,
     review_note     : {NullString, Some(""), Some("grief")},
     fill_duration   : {NullString, Some("1m")}]

\* a JavaScript string used as a condition
Truthy(str) == ~str.isNull /\ str.s # ""

\* toLocaleString with month, day, hour and minute: the seconds are dropped
NoDate == [empty |-> TRUE, minute |-> 0]
formatDateTime(isoString) ==
    IF isoString.isNull THEN NoDate ELSE [empty |-> FALSE, minute |-> isoString.minute]

getActiveStep ==
    IF submission.status = "approved" \/ submission.status = "rejected" THEN 3
    ELSE IF ~submission.first_viewed_at.isNull THEN 2
    ELSE 1

\* a fixed text of the component, or a text built around a value
Text(msg, arg) == [msg |-> msg, arg |-> arg]

\* data-completed of a TimelineItem
Completed(step, activeStep) == step <= activeStep

Item(id, title, description, date) ==
    [id |-> id, title |-> title, description |-> description, date |-> date,
     completed |-> Completed(id, getActiveStep)]

SubmittedItem ==
    Item(1, "submit_survey",
         IF Truthy(submission.fill_duration)
         THEN Text("fill_duration", submission.fill_duration.s)
         ELSE Text("submitted_ok", ""),
         formatDateTime(submission.submitted_at))

ViewedItem ==
    Item(2, "admin_view",
         IF ~submission.first_viewed_at.isNull
         THEN Text("admin_viewed", "")
         ELSE Text("waiting_for_view", ""),
         formatDateTime(submission.first_viewed_at))

FinalItem ==
    IF submission.status = "approved"
    THEN Item(3, "approved", Text("whitelisted", submission.player_name),
              formatDateTime(submission.reviewed_at))
    ELSE IF submission.status = "rejected"
    THEN Item(3, "rejected",
              IF Truthy(submission.review_note)
              THEN Text("review_note", submission.review_note.s)
              ELSE Text("rejected_by_admin", ""),
              formatDateTime(submission.reviewed_at))
    ELSE Item(3, "waiting_for_review", Text("under_review", ""), NoDate)

StatusTimelineDecidedOnly ==
    IF submission.status = "pending"
    THEN <<SubmittedItem, ViewedItem>>
    ELSE <<SubmittedItem, ViewedItem, FinalItem>>

\* the TimelineItems the component renders, in order
StatusTimeline == <<SubmittedItem, ViewedItem, FinalItem>>

TimelineInit ==
    /\ survey = NullSurvey
    /\ answers = <<>>
    /\ loading = FALSE
    /\ error = ""
    /\ currentIndex = 0
    /\ playerName = <<>>
    /\ submitting = FALSE
    /\ showConfirm = FALSE
    /\ submitted = FALSE
    /\ securityConfig = NullConfig
    /\ turnstileToken = NoToken
    /\ calls = <<>>
    /\ tokensIssued = 0
    /\ toast = NoToast
    /\ lastEvent = "query"
    /\ evalResult = NoEval
    /\ startTime = MountTime
    /\ deployment = FALSE
    /\ submission \in Submissions
    /\ admins = NoAdmins
    /\ items = NoItems
    /\ gate = NoGate
    /\ uploader = NoUploader

\* <StatusTimeline submission={submission} /> is mounted for a query result
RenderTimeline ==
    /\ items = NoItems
    /\ items' = StatusTimeline
    /\ lastEvent' = "render"
    /\ UNCHANGED <<survey, loading, error, currentIndex, answers, playerName, submitting,
                   showConfirm, submitted, securityConfig, turnstileToken, calls,
                   tokensIssued, toast, evalResult, startTime, deployment,
                   submission, admins, gate, uploader>>

TimelineNext == RenderTimeline

TimelineSpec == TimelineInit /\ [][TimelineNext]_vars

\* ================================================== review state machine
\* The server side of the review is not part of the sources; it is modelled
\* from the specification of decide.
Admins == 1..MaxAdmins

ReviewNotes == {NullString, Some(""), Some("grief")}

NoResponse         == [kind |-> "none", state |-> NoSubmission]
Ok(state)          == [kind |-> "ok", state |-> state]
ConflictError(state) == [kind |-> "conflict", state |-> state]
ValidationError    == [kind |-> "invalid", state |-> NoSubmission]

IdleAdmin ==
    [pc |-> "idle", outcome |-> "", note |-> NullString, seen |-> "", response |-> NoResponse]

\* a created submission nobody has looked at yet
PendingSubmission ==
    [status |-> "pending", player_name |-> "Steve", submitted_at |-> Stamp(1, 0),
     first_viewed_at |-> NullStamp, reviewed_at |-> NullStamp,
     review_note |-> NullString, fill_duration |-> NullString]

ReviewInit ==
    /\ survey = NullSurvey
    /\ answers = <<>>
    /\ loading = FALSE
    /\ error = ""
    /\ currentIndex = 0
    /\ playerName = <<>>
    /\ submitting = FALSE
    /\ showConfirm = FALSE
    /\ submitted = FALSE
    /\ securityConfig = NullConfig
    /\ turnstileToken = NoToken
    /\ calls = <<>>
    /\ tokensIssued = 0
    /\ toast = NoToast
    /\ lastEvent = "created"
    /\ evalResult = NoEval
    /\ startTime = MountTime
    /\ deployment = FALSE
    /\ submission = PendingSubmission
    /\ admins = [a \in Admins |-> IdleAdmin]
    /\ items = NoItems
    /\ gate = NoGate
    /\ uploader = NoUploader

ReviewUnchanged ==
    UNCHANGED <<survey, loading, error, currentIndex, answers, playerName, submitting,
                showConfirm, submitted, securityConfig, turnstileToken, calls,
                tokensIssued, toast, evalResult, startTime, deployment, items,
                gate, uploader>>

\* decide(outcome, note) arrives: the note is checked and the state the
\* decision is based on is read
decide(a, outcome, note) ==
    /\ admins[a].pc = "idle"
    /\ lastEvent' = "decide"
    /\ IF outcome = "rejected" /\ ~Truthy(note)
       THEN admins' = [admins EXCEPT ![a] =
                 [pc |-> "done", outcome |-> outcome, note |-> note, seen |-> "",
                  response |-> ValidationError]]
       ELSE admins' = [admins EXCEPT ![a] =
                 [pc |-> "deciding", outcome |-> outcome, note |-> note,
                  seen |-> submission.status, response |-> NoResponse]]
    /\ UNCHANGED submission
    /\ ReviewUnchanged

decideCommitUnguarded(a) ==
    /\ admins[a].pc = "deciding"
    /\ lastEvent' = "commit"
    /\ IF admins[a].seen = "pending"
       THEN \E m \in 1..MaxMinute :
               LET decided == [submission EXCEPT !.status = admins[a].outcome,
                                                 !.reviewed_at = Stamp(m, 0),
                                                 !.review_note = admins[a].note]
               IN /\ submission' = decided
                  /\ admins' = [admins EXCEPT ![a].pc = "done", ![a].response = Ok(decided)]
       ELSE /\ admins' = [admins EXCEPT ![a].pc = "done",
                                        ![a].response = ConflictError(submission)]
            /\ UNCHANGED submission
    /\ ReviewUnchanged

decideCommitOverwriting(a) ==
    /\ admins[a].pc = "deciding"
    /\ lastEvent' = "commit"
    /\ \E m \in 1..MaxMinute :
          LET decided == [submission EXCEPT !.status = admins[a].outcome,
                                            !.reviewed_at = Stamp(m, 0),
                                            !.review_note = admins[a].note]
          IN /\ submission' = decided
             /\ admins' = [admins EXCEPT ![a].pc = "done", ![a].response = Ok(decided)]
    /\ ReviewUnchanged

\* the guarded write: it takes effect only while the submission is still
\* pending; otherwise the caller gets a conflict with the current state
decideCommit(a) ==
    /\ admins[a].pc = "deciding"
    /\ lastEvent' = "commit"
    /\ IF submission.status = "pending"
       THEN \E m \in 1..MaxMinute :
               LET decided == [submission EXCEPT !.status = admins[a].outcome,
                                                 !.reviewed_at = Stamp(m, 0),
                                                 !.review_note = admins[a].note]
               IN /\ submission' = decided
                  /\ admins' = [admins EXCEPT ![a].pc = "done", ![a].response = Ok(decided)]
       ELSE /\ admins' = [admins EXCEPT ![a].pc = "done",
                                        ![a].response = ConflictError(submission)]
            /\ UNCHANGED submission
    /\ ReviewUnchanged

ReviewNext ==
    \/ \E a \in Admins, outcome \in {"approved", "rejected"}, note \in ReviewNotes :
          decide(a, outcome, note)
    \/ \E a \in Admins : decideCommit(a)

ReviewSpec == ReviewInit /\ [][ReviewNext]_vars

\* ======================================================= record_first_view
\* Modelled from the specification of record_first_view, as the server side
\* is not part of the sources.
IdleViewer ==
    [pc |-> "idle", stamp |-> NullStamp, seen |-> NullStamp, wrote |-> FALSE, views |-> 0]

ViewInit ==
    /\ survey = NullSurvey
    /\ answers = <<>>
    /\ loading = FALSE
    /\ error = ""
    /\ currentIndex = 0
    /\ playerName = <<>>
    /\ submitting = FALSE
    /\ showConfirm = FALSE
    /\ submitted = FALSE
    /\ securityConfig = NullConfig
    /\ turnstileToken = NoToken
    /\ calls = <<>>
    /\ tokensIssued = 0
    /\ toast = NoToast
    /\ lastEvent = "created"
    /\ evalResult = NoEval
    /\ startTime = MountTime
    /\ deployment = FALSE
    /\ submission = PendingSubmission
    /\ admins = [a \in Admins |-> IdleViewer]
    /\ items = NoItems
    /\ gate = NoGate
    /\ uploader = NoUploader

\* a qualifying admin read arrives at minute m and sees the stored field
record_first_view(a, m) ==
    /\ admins[a].pc = "idle"
    /\ admins[a].views < MaxViews
    /\ lastEvent' = "record_first_view"
    /\ admins' = [admins EXCEPT ![a].pc = "viewing", ![a].stamp = Stamp(m, 0),
                                ![a].seen = submission.first_viewed_at]
    /\ UNCHANGED submission
    /\ ReviewUnchanged

record_first_view_write_stale(a) ==
    /\ admins[a].pc = "viewing"
    /\ lastEvent' = "view_written"
    /\ IF admins[a].seen.isNull
       THEN /\ submission' = [submission EXCEPT !.first_viewed_at = admins[a].stamp]
            /\ admins' = [admins EXCEPT ![a].pc = "idle", ![a].wrote = TRUE,
                                        ![a].views = @ + 1]
       ELSE /\ admins' = [admins EXCEPT ![a].pc = "idle", ![a].views = @ + 1]
            /\ UNCHANGED submission
    /\ ReviewUnchanged

\* the conditional write: set first_viewed_at if it is null
record_first_view_write(a) ==
    /\ admins[a].pc = "viewing"
    /\ lastEvent' = "view_written"
    /\ IF submission.first_viewed_at.isNull
       THEN /\ submission' = [submission EXCEPT !.first_viewed_at = admins[a].stamp]
            /\ admins' = [admins EXCEPT ![a].pc = "idle", ![a].wrote = TRUE,
                                        ![a].views = @ + 1]
       ELSE /\ admins' = [admins EXCEPT ![a].pc = "idle", ![a].views = @ + 1]
            /\ UNCHANGED submission
    /\ ReviewUnchanged

ViewNext ==
    \/ \E a \in Admins, m \in 1..MaxMinute : record_first_view(a, m)
    \/ \E a \in Admins : record_first_view_write(a)

ViewSpec == ViewInit /\ [][ViewNext]_vars

\* ========================================================= Anti-Abuse Gate
\* Modelled from the specification of the gate, as the server side is not
\* part of the sources.

\* the minimum fill duration of the specification's example, in seconds
FillThreshold == 3

\* bot verification configured or not; a threshold of 0 is none configured
GateConfigs == [verification : BOOLEAN, threshold : {0, FillThreshold}]

Requests ==
    [token : {"missing", "invalid", "expired", "valid"},
     elapsed : 0..MaxFill,
     answers : {[i \in 1..n |-> i] : n \in 1..MaxAnswers}]

NoRequest == [token |-> "missing", elapsed |-> 0, answers |-> <<>>]

\* the Submission row and the Answer rows of a table state
NoRows == [submission |-> "none", answers |-> <<>>]

GateInit ==
    /\ survey = NullSurvey
    /\ answers = <<>>
    /\ loading = FALSE
    /\ error = ""
    /\ currentIndex = 0
    /\ playerName = <<>>
    /\ submitting = FALSE
    /\ showConfirm = FALSE
    /\ submitted = FALSE
    /\ securityConfig = NullConfig
    /\ turnstileToken = NoToken
    /\ calls = <<>>
    /\ tokensIssued = 0
    /\ toast = NoToast
    /\ lastEvent = "deployed"
    /\ evalResult = NoEval
    /\ startTime = MountTime
    /\ deployment = FALSE
    /\ submission = NoSubmission
    /\ admins = NoAdmins
    /\ items = NoItems
    /\ \E c \in GateConfigs :
          gate = [config |-> c, pc |-> "idle", request |-> NoRequest, txn |-> NoRows,
                  store |-> NoRows, response |-> "none"]
    /\ uploader = NoUploader

GateUnchanged ==
    UNCHANGED <<survey, loading, error, currentIndex, answers, playerName, submitting,
                showConfirm, submitted, securityConfig, turnstileToken, calls,
                tokensIssued, toast, evalResult, startTime, deployment, submission,
                admins, items, uploader>>

\* the request arrives and the transaction begins
receive(req) ==
    /\ gate.pc = "idle"
    /\ gate' = [gate EXCEPT !.pc = "token", !.request = req]
    /\ lastEvent' = "receive"
    /\ GateUnchanged

\* the transaction is rolled back and the request refused
Rollback(response) ==
    gate' = [gate EXCEPT !.pc = "done", !.txn = NoRows, !.response = response]

verifyToken ==
    /\ gate.pc = "token"
    /\ IF gate.config.verification /\ gate.request.token # "valid"
       THEN Rollback("AbuseRejected")
       ELSE gate' = [gate EXCEPT !.pc = "duration"]
    /\ lastEvent' = "verifyToken"
    /\ GateUnchanged

checkDuration ==
    /\ gate.pc = "duration"
    /\ IF gate.config.threshold > 0 /\ gate.request.elapsed < gate.config.threshold
       THEN Rollback("AbuseRejected")
       ELSE gate' = [gate EXCEPT !.pc = "insert", !.txn.submission = "pending"]
    /\ lastEvent' = "checkDuration"
    /\ GateUnchanged

insertAnswerAutocommit ==
    /\ gate.pc = "insert"
    /\ Len(gate.txn.answers) < Len(gate.request.answers)
    /\ LET rows == [gate.txn EXCEPT
                       !.answers = Append(@, gate.request.answers[Len(@) + 1])]
       IN gate' = [gate EXCEPT !.txn = rows, !.store = rows]
    /\ lastEvent' = "insertAnswer"
    /\ GateUnchanged

\* one Answer row is written inside the transaction
insertAnswer ==
    /\ gate.pc = "insert"
    /\ Len(gate.txn.answers) < Len(gate.request.answers)
    /\ gate' = [gate EXCEPT
                   !.txn.answers = Append(@, gate.request.answers[Len(@) + 1])]
    /\ lastEvent' = "insertAnswer"
    /\ GateUnchanged

\* a write fails: nothing of the transaction is kept
insertFail ==
    /\ gate.pc = "insert"
    /\ Rollback("error")
    /\ lastEvent' = "insertFail"
    /\ GateUnchanged

commit ==
    /\ gate.pc = "insert"
    /\ Len(gate.txn.answers) = Len(gate.request.answers)
    /\ gate' = [gate EXCEPT !.pc = "done", !.store = gate.txn, !.txn = NoRows,
                            !.response = "created"]
    /\ lastEvent' = "commit"
    /\ GateUnchanged

GateNext ==
    \/ \E req \in Requests : receive(req)
    \/ verifyToken
    \/ checkDuration
    \/ insertAnswer
    \/ insertFail
    \/ commit

GateSpec == GateInit /\ [][GateNext]_vars

\* ============================================== handleSubmit on its own
\* The confirm dialog as it first opens on a survey that can be finished
\* without answering anything; from there handleSubmit is also run with the
\* submit button's disabled attribute left aside.
SubmitInit ==
    /\ survey \in {SurveyForward, SurveyCycle}
    /\ answers = <<>>
    /\ loading = FALSE
    /\ error = ""
    /\ currentIndex = Len(VisibleOf(survey, <<>>)) - 1
    /\ playerName = <<>>
    /\ submitting = FALSE
    /\ showConfirm = TRUE
    /\ submitted = FALSE
    /\ deployment \in BOOLEAN
    /\ securityConfig \in LoadableConfigs
    /\ turnstileToken = NoToken
    /\ calls = <<>>
    /\ tokensIssued = 0
    /\ toast = NoToast
    /\ lastEvent = "next"
    /\ evalResult = NoEval
    /\ startTime = MountTime
    /\ submission = NoSubmission
    /\ admins = NoAdmins
    /\ items = NoItems
    /\ gate = NoGate
    /\ uploader = NoUploader

handleSubmitCall ==
    /\ DialogOperable
    /\ Len(calls) < MaxCalls
    /\ lastEvent' = "handleSubmit"
    /\ handleSubmit
    /\ UNCHANGED <<survey, loading, error, currentIndex, answers, playerName, showConfirm,
                   submitted, securityConfig, turnstileToken, tokensIssued, evalResult,
                   startTime, deployment, review>>

SubmitNext ==
    \/ \E n \in Names : PlayerNameChange(n)
    \/ TurnstileVerify
    \/ CloseDialog
    \/ handleSubmitCall
    \/ \E i \in 1..MaxCalls : submitResolve(i)
    \/ \E i \in 1..MaxCalls : submitReject(i)

SubmitSpec == SubmitInit /\ [][SubmitNext]_vars

\* =========================================== isQuestionAnswered on its own
QuestionTypes == {"single", "boolean", "multiple", "text", "image"}

AnsweredContents ==
    { ValueContent(Str("A")), ValueContent(Str("")), ValueContent(Bool(TRUE)),
      ValueContent(Bool(FALSE)), ValueContent(Undefined),
      ValuesContent(<<>>), ValuesContent(<<"A">>),
      ImagesContent(<<>>), ImagesContent(<<"u">>) }
    \cup { TextContent(t) : t \in Texts }

\* one question of any type; the Map is empty, holds an entry for another
\* question only, or holds an entry of any shape for this one
AnsweredInit ==
    /\ \E type \in QuestionTypes, req \in BOOLEAN :
          survey = << Q(1, type, req, IF type \in {"single", "multiple"} THEN <<"A">> ELSE <<>>,
                        NoCondition) >>
    /\ answers \in {<<>>, <<[question_id |-> 2, content |-> ValueContent(Str("A"))]>>}
                     \cup { <<[question_id |-> 1, content |-> c]>> : c \in AnsweredContents }
    /\ loading = FALSE
    /\ error = ""
    /\ currentIndex = 0
    /\ playerName = <<>>
    /\ submitting = FALSE
    /\ showConfirm = FALSE
    /\ submitted = FALSE
    /\ securityConfig = NullConfig
    /\ turnstileToken = NoToken
    /\ calls = <<>>
    /\ tokensIssued = 0
    /\ toast = NoToast
    /\ lastEvent = "mount"
    /\ evalResult = NoEval
    /\ startTime = MountTime
    /\ deployment = FALSE
    /\ submission = NoSubmission
    /\ admins = NoAdmins
    /\ items = NoItems
    /\ gate = NoGate
    /\ uploader = NoUploader

EvaluateAnswered ==
    /\ ~evalResult.done
    /\ evalResult' = [done |-> TRUE, question |-> survey[1],
                      answered |-> isQuestionAnswered(survey[1])]
    /\ UNCHANGED <<survey, loading, error, currentIndex, answers, playerName, submitting,
                   showConfirm, submitted, securityConfig, turnstileToken, calls,
                   tokensIssued, toast, lastEvent, startTime, deployment, review>>

AnsweredNext == EvaluateAnswered

AnsweredSpec == AnsweredInit /\ [][AnsweredNext]_vars

\* =========================================================== ImageUploader
\* uploader.value is the images prop, uploads the handleFileSelect calls
\* waiting on uploadImage, each with the value its closure captured and the
\* URLs the server will return for its files.
UploadInit ==
    /\ uploader = [value |-> <<>>, uploading |-> FALSE, uploads |-> <<>>, issued |-> 0]
    /\ survey = NullSurvey
    /\ answers = <<>>
    /\ loading = FALSE
    /\ error = ""
    /\ currentIndex = 0
    /\ playerName = <<>>
    /\ submitting = FALSE
    /\ showConfirm = FALSE
    /\ submitted = FALSE
    /\ securityConfig = NullConfig
    /\ turnstileToken = NoToken
    /\ calls = <<>>
    /\ tokensIssued = 0
    /\ toast = NoToast
    /\ lastEvent = "mount"
    /\ evalResult = NoEval
    /\ startTime = MountTime
    /\ deployment = FALSE
    /\ submission = NoSubmission
    /\ admins = NoAdmins
    /\ items = NoItems
    /\ gate = NoGate

UploadUnchanged ==
    UNCHANGED <<survey, loading, error, currentIndex, answers, playerName, submitting,
                showConfirm, submitted, securityConfig, turnstileToken, calls,
                tokensIssued, evalResult, startTime, deployment, submission, admins,
                items, gate>>

canUploadMore == Len(uploader.value) < MaxImages

\* handleFileSelect up to its first await; valid is the outcome of the
\* type and size checks on the files kept
handleFileSelect(files, valid) ==
    LET remainingSlots == MaxImages - Len(uploader.value)
        filesToUpload  == IF files < remainingSlots THEN files ELSE remainingSlots
    IN /\ files > 0
       /\ uploader.issued + files <= MaxUrls
       /\ IF remainingSlots <= 0
          THEN /\ toast' = Toast("too_many_images", 0, {})
               /\ UNCHANGED uploader
          ELSE IF ~valid
          THEN /\ toast' = Toast("invalid_file", 0, {})
               /\ UNCHANGED uploader
          ELSE /\ toast' = NoToast
               /\ uploader' =
                    [uploader EXCEPT
                       !.uploading = TRUE,
                       !.uploads = Append(@, [value |-> uploader.value,
                                              uploadedUrls |-> [k \in 1..filesToUpload |->
                                                                  uploader.issued + k]]),
                       !.issued = @ + filesToUpload]

\* the file input of the "add more" tile or of the empty drop zone
FileInputChange(files, valid) ==
    /\ ~uploader.uploading
    /\ canUploadMore
    /\ lastEvent' = "select"
    /\ handleFileSelect(files, valid)
    /\ UploadUnchanged

\* files dropped on the zone shown while there is no image
handleDrop(files, valid) ==
    /\ Len(uploader.value) = 0
    /\ lastEvent' = "drop"
    /\ handleFileSelect(files, valid)
    /\ UploadUnchanged

handleRemove(index) ==
    /\ index \in 0..(Len(uploader.value) - 1)
    /\ uploader' = [uploader EXCEPT !.value = RemoveAt(@, index + 1)]
    /\ toast' = NoToast
    /\ lastEvent' = "remove"
    /\ UploadUnchanged

\* every uploadImage of call i resolved: onChange([...value, ...uploadedUrls])
uploadResolve(i) ==
    /\ i \in 1..Len(uploader.uploads)
    /\ uploader' = [uploader EXCEPT
                      !.value = uploader.uploads[i].value \o uploader.uploads[i].uploadedUrls,
                      !.uploading = FALSE,
                      !.uploads = RemoveAt(@, i)]
    /\ toast' = Toast("upload_ok", Len(uploader.uploads[i].uploadedUrls), {})
    /\ lastEvent' = "uploaded"
    /\ UploadUnchanged

\* one uploadImage of call i rejected: nothing is added
uploadReject(i) ==
    /\ i \in 1..Len(uploader.uploads)
    /\ uploader' = [uploader EXCEPT !.uploading = FALSE, !.uploads = RemoveAt(@, i)]
    /\ toast' = Toast("upload_failed", 0, {})
    /\ lastEvent' = "upload_failed"
    /\ UploadUnchanged

UploadNext ==
    \/ \E files \in 1..MaxFiles, valid \in BOOLEAN : FileInputChange(files, valid)
    \/ \E files \in 1..MaxFiles, valid \in BOOLEAN : handleDrop(files, valid)
    \/ \E index \in 0..(MaxImages - 1) : handleRemove(index)
    \/ \E i \in 1..MaxUrls : uploadResolve(i)
    \/ \E i \in 1..MaxUrls : uploadReject(i)

UploadSpec == UploadInit /\ [][UploadNext]_vars

\* ================================================================ claims
Ids(seq) == {seq[i].id : i \in 1..Len(seq)}
EntryIds(entries) == {entries[i].question_id : i \in 1..Len(entries)}
CallMade == Len(calls') > Len(calls)
NewCall == calls'[Len(calls')]

\* C1: the payload built by handleSubmit holds no entry whose question_id is
\* outside the visible subsequence computed from the answer map at that
\* moment, even when the map still holds an answer for such a question.
C1_PayloadOnlyVisible ==
    [][CallMade => EntryIds(NewCall.answers) \subseteq Ids(VisibleOf(survey, answers))]_vars

C1_Witness ==
    /\ lastEvent = "submit" /\ Len(calls) = 1
    /\ \E key \in MapKeys(answers) :
          /\ key \notin Ids(visibleQuestions)
          /\ key \notin EntryIds(calls[1].answers)

\* C2 (as claimed): whenever the visible subsequence is non-empty the current
\* position is a valid index into it.
C2_IndexInRange ==
    (survey # NullSurvey /\ Len(visibleQuestions) > 0)
        => currentIndex \in 0..(Len(visibleQuestions) - 1)

\* C3: at most one submitSurvey call is in flight at a time, and while a call
\* is pending no activation of the submit control makes another call.
C3_NonReentrant ==
    /\ [](Len(calls) <= 1)
    /\ [][calls # <<>> => Len(calls') <= Len(calls)]_vars

C3_Witness ==
    /\ lastEvent = "submit_disabled"
    /\ submitting /\ Len(calls) = 1 /\ canSubmit

\* C4 (as claimed): a question whose dependency is currently hidden is itself
\* not in the visible subsequence.
C4_HiddenDependencyInert ==
    \A i \in 1..Len(visibleQuestions) :
        LET q == visibleQuestions[i]
        IN (q.condition.has /\ q.condition.depends_on \in Ids(survey))
               => q.condition.depends_on \in Ids(visibleQuestions)

\* C5 (as claimed): a finalize attempt with required visible questions left
\* unanswered reports a failure naming every such question and sends nothing,
\* and no submit call is made while one is unanswered.
C5_FinalizeNamesEveryMissing ==
    /\ [][(lastEvent' = "next" /\ HasCurrent /\ isLastQuestion /\ Len(UnansweredRequired) > 0)
            => (/\ toast'.msg # ""
                /\ toast'.names = Ids(UnansweredRequired)
                /\ ~showConfirm'
                /\ calls' = calls)]_vars
    /\ [][CallMade => Len(UnansweredRequired) = 0]_vars

\* the second half of C5 alone: no call while a required visible question
\* is unanswered
C5_NoCallWhileMissing == [][CallMade => Len(UnansweredRequired) = 0]_vars

\* an answer with nothing in it: '', [] or no property at all
IsEmptyContent(c) ==
    CASE c.k = "value"  -> c.value \in {Undefined, Str("")}
      [] c.k = "values" -> c.values = <<>>
      [] c.k = "text"   -> c.text = <<>>
      [] c.k = "images" -> c.images = <<>>
      [] OTHER -> TRUE

\* C6 (as claimed): the payload has exactly one entry for each visible
\* question with a non-empty answer, and none for a visible question whose
\* cached answer is empty.
C6_OneEntryPerNonEmptyAnswer ==
    [][CallMade =>
         LET entries == NewCall.answers
             nonEmpty == {id \in Ids(VisibleOf(survey, answers)) :
                            MapHas(answers, id) /\ ~IsEmptyContent(MapGet(answers, id))}
         IN /\ EntryIds(entries) = nonEmpty
            /\ \A i, j \in 1..Len(entries) :
                  entries[i].question_id = entries[j].question_id => i = j]_vars

\* C7: next on a required, unanswered current question is refused with a
\* reported failure; position, answer map and dialog flag stay as they were.
C7_NextRefusedWhenRequiredUnanswered ==
    [][(lastEvent' = "next" /\ HasCurrent /\ currentQuestion.is_required
          /\ ~isQuestionAnswered(currentQuestion))
         => (/\ toast'.msg = "complete_current"
             /\ currentIndex' = currentIndex
             /\ answers' = answers
             /\ showConfirm' = showConfirm)]_vars

C7_Witness ==
    /\ lastEvent = "next" /\ toast.msg = "complete_current"
    /\ HasCurrent /\ currentQuestion.is_required /\ ~isQuestionAnswered(currentQuestion)
    /\ currentIndex > 0

\* the dependency of the evaluated question has no scalar value in the map
EvalDependencyUnanswered ==
    LET dep == evalResult.question.condition.depends_on
    IN \/ ~MapHas(answers, dep)
       \/ MapGet(answers, dep).k # "value"
       \/ MapGet(answers, dep).value = Undefined

\* C8: a question with a condition is not visible whenever its dependency has
\* no entry in the answer map or an entry without a scalar value.
C8_UnansweredDependencyHides ==
    (evalResult.done /\ evalResult.question.condition.has /\ EvalDependencyUnanswered)
        => ~evalResult.visible

C8_Witness ==
    /\ evalResult.done /\ evalResult.question.condition.has
    /\ MapHas(answers, evalResult.question.condition.depends_on)
    /\ MapGet(answers, evalResult.question.condition.depends_on).k = "values"
    /\ ~evalResult.visible

\* the canonical string of a scalar: "true"/"false" for a boolean
CanonicalString(x) == IF x.t = "boolean" THEN Str(x.v) ELSE x

\* C9: with the dependency answered, the question is visible exactly when the
\* dependency's value, a boolean taken in its canonical string form, equals
\* show_when, or is one of its members when show_when is a collection.
C9_VisibleIffMatches ==
    (evalResult.done /\ evalResult.question.condition.has /\ ~EvalDependencyUnanswered)
        => LET cond == evalResult.question.condition
               sv   == CanonicalString(MapGet(answers, cond.depends_on).value)
           IN evalResult.visible <=>
                 IF cond.isArray
                 THEN sv \in {cond.show_when[i] : i \in 1..Len(cond.show_when)}
                 ELSE sv = cond.show_when[1]

C9_Witness ==
    /\ evalResult.done /\ evalResult.question.condition.has
    /\ ~EvalDependencyUnanswered
    /\ MapGet(answers, evalResult.question.condition.depends_on).value = Bool(TRUE)
    /\ evalResult.question.condition.show_when = <<Str("true")>>
    /\ evalResult.visible

\* C10: a question with no condition is visible under any answer set.
C10_NoConditionAlwaysVisible ==
    (evalResult.done /\ ~evalResult.question.condition.has) => evalResult.visible

C10_Witness ==
    /\ evalResult.done /\ ~evalResult.question.condition.has
    /\ evalResult.visible /\ answers # <<>>

PositionOf(id) == CHOOSE i \in 1..Len(survey) : survey[i].id = id

\* C12: a next step that moves shows the first question after the current
\* one, in list order, whose condition is satisfied; the questions between
\* the two are exactly the ones whose condition is not satisfied.
C12_NextVisitsNextVisible ==
    [][(lastEvent' = "next" /\ currentIndex' # currentIndex) =>
          /\ HasCurrent'
          /\ LET from == PositionOf(currentQuestion.id)
                 to   == PositionOf(currentQuestion'.id)
             IN /\ to > from
                /\ isQuestionVisible(survey[to], answers)
                /\ \A j \in (from + 1)..(to - 1) : ~isQuestionVisible(survey[j], answers)]_vars

C12_Witness ==
    /\ survey = SurveySkip
    /\ lastEvent = "next"
    /\ MapHas(answers, 31) /\ MapGet(answers, 31) = ValueContent(Str("B"))
    /\ currentIndex = 1 /\ HasCurrent /\ currentQuestion.id = 33

\* C13: the confirm dialog opens only through next at the last position of
\* the visible subsequence with every required visible question answered,
\* and opening it makes no submit call.
C13_DialogOnlyThroughFinalNext ==
    [][(~showConfirm /\ showConfirm') =>
          /\ lastEvent' = "next"
          /\ isLastQuestion
          /\ Len(UnansweredRequired) = 0
          /\ calls' = calls]_vars

C13_Witness ==
    /\ lastEvent = "next" /\ showConfirm
    /\ calls = <<>> /\ ~submitting

\* C14: previous moves the position back by exactly one from any position
\* greater than 0, also when the current question is required and unanswered;
\* at position 0 it changes nothing; it never modifies the answer map.
C14_PrevAlwaysPermitted ==
    [][lastEvent' = "prev" =>
          /\ answers' = answers
          /\ currentIndex > 0 => currentIndex' = currentIndex - 1
          /\ currentIndex = 0 => currentIndex' = 0]_vars

C14_Witness ==
    /\ survey = SurveyBool
    /\ lastEvent = "prev" /\ currentIndex = 0
    /\ isQuestionVisible(survey[2], answers)
    /\ MapHas(answers, 2) /\ ~isQuestionAnswered(survey[2])

\* the question a condition refers to, by list position (0 when absent)
DependsOnPosition(i) ==
    IF \E j \in 1..Len(survey) : survey[j].id = survey[i].condition.depends_on
    THEN PositionOf(survey[i].condition.depends_on)
    ELSE 0

\* question i reaches question j through at most n depends_on links
RECURSIVE Reaches(_, _, _)
Reaches(i, j, n) ==
    /\ n > 0
    /\ survey[i].condition.has
    /\ DependsOnPosition(i) # 0
    /\ \/ DependsOnPosition(i) = j
       \/ Reaches(DependsOnPosition(i), j, n - 1)

\* C15 (as claimed): a survey in which the conditions of two different
\* questions depend on each other through a cycle is rejected when it is
\* loaded: the page does not hold it without reporting an error.
C15_CycleRejectedAtLoad ==
    (/\ survey # NullSurvey
     /\ \E i, j \in 1..Len(survey) :
           i # j /\ Reaches(i, j, Len(survey)) /\ Reaches(j, i, Len(survey)))
        => error # ""

\* C16 (as claimed): a condition that refers to the question itself, to a
\* later question, or to a question that is neither boolean nor
\* single-choice is reported as an error when the survey is loaded.
C16_BadReferenceReported ==
    (/\ survey # NullSurvey
     /\ \E i \in 1..Len(survey) :
           /\ survey[i].condition.has
           /\ DependsOnPosition(i) # 0
           /\ \/ DependsOnPosition(i) >= i
              \/ survey[DependsOnPosition(i)].type \notin {"boolean", "single"})
        => error # ""

\* C17 (as claimed): every payload carries the elapsed time, some reading
\* of the clock at finalize minus the start timestamp, and carries a token
\* whenever bot verification is enabled for the deployment.
C17_ElapsedAndTokenWhenDeployed ==
    [][CallMade =>
          /\ \E finalize \in startTime..(startTime + MaxElapsed) :
                NewCall.start_time = finalize - startTime
          /\ deployment => NewCall.turnstile_token # NoToken]_vars

\* C17 (amended): the start timestamp is recorded once, when the page is
\* mounted; every payload carries that timestamp itself, not a difference
\* of clock readings, and carries the verified token whenever the security
\* configuration the page loaded enables bot verification. A configuration
\* that failed to load counts as disabled.
C17_StartTimestampAndTokenWhenConfigured ==
    /\ [](startTime = MountTime)
    /\ [][CallMade =>
             /\ NewCall.start_time = startTime
             /\ NewCall.turnstile_token = turnstileToken
             /\ turnstileEnabled => NewCall.turnstile_token # NoToken]_vars

C17_Witness ==
    /\ lastEvent = "submit" /\ Len(calls) = 1
    /\ calls[1].start_time = MountTime
    /\ turnstileEnabled /\ calls[1].turnstile_token # NoToken

\* C18 (as claimed): the viewed step is complete when first_viewed_at is set
\* or the submission is decided, and not complete otherwise; a decided
\* submission never shows the viewed step as still waiting to be viewed.
C18_ViewedStepNeverWaitingOnceDecided ==
    items # NoItems =>
        /\ items[2].completed <=>
              (~submission.first_viewed_at.isNull \/ submission.status # "pending")
        /\ submission.status # "pending" =>
              items[2].description # Text("waiting_for_view", "")

\* C19 (as claimed): at most three steps in the order submitted, viewed,
\* decided; the submitted step carries submitted_at; the decided step is
\* there only when the status is not pending, and then shows the outcome,
\* reviewed_at and, for a rejection, the review note.
C19_DecidedStepOnlyWhenDecided ==
    items # NoItems =>
        /\ Len(items) <= 3
        /\ \A i \in 1..Len(items) : items[i].id = i
        /\ items[1].date = formatDateTime(submission.submitted_at)
        /\ (Len(items) = 3) <=> (submission.status # "pending")
        /\ Len(items) = 3 =>
              /\ items[3].title = submission.status
              /\ items[3].date = formatDateTime(submission.reviewed_at)
              /\ submission.status = "rejected" =>
                    items[3].description = Text("review_note", submission.review_note.s)

\* C19 (amended): the timeline always has exactly three steps, in the order
\* submitted, viewed, final. The submitted step carries submitted_at to the
\* minute. When the status is not pending the final step shows the outcome
\* and reviewed_at, and for a rejection the review note if there is one and
\* a fixed text if there is none; when the status is pending the final step
\* is a not yet completed "waiting for review" step without a date.
C19_ThreeStepsWithPendingPlaceholder ==
    items # NoItems =>
        /\ Len(items) = 3
        /\ \A i \in 1..3 : items[i].id = i
        /\ items[1].date = formatDateTime(submission.submitted_at)
        /\ items[1].completed
        /\ submission.status # "pending" =>
              /\ items[3].title = submission.status
              /\ items[3].date = formatDateTime(submission.reviewed_at)
              /\ items[3].completed
        /\ submission.status = "rejected" =>
              items[3].description =
                 IF Truthy(submission.review_note)
                 THEN Text("review_note", submission.review_note.s)
                 ELSE Text("rejected_by_admin", "")
        /\ submission.status = "pending" =>
              /\ items[3].title = "waiting_for_review"
              /\ items[3].date = NoDate
              /\ ~items[3].completed

C19_Witness ==
    /\ items # NoItems
    /\ submission.status = "pending"
    /\ ~submission.first_viewed_at.isNull
    /\ Len(items) = 3 /\ items[3].title = "waiting_for_review"
    /\ items[2].completed

\* the admins whose decide call took effect
Winners == {a \in Admins : admins[a].response.kind = "ok"}

\* C20: of the concurrent decide calls on one pending submission exactly one
\* succeeds; every other call receives a conflict that carries the winner's
\* outcome and note; the submission is never stamped while undecided, and a
\* decided submission is never written again.
C20_OneDecisionWins ==
    /\ [](Cardinality(Winners) <= 1)
    /\ []((submission.status = "pending") <=> submission.reviewed_at.isNull)
    /\ []((submission.status = "pending") <=> (Winners = {}))
    /\ [](\A a \in Admins :
             /\ admins[a].response.kind = "ok" =>
                   /\ submission = admins[a].response.state
                   /\ submission.status = admins[a].outcome
                   /\ submission.review_note = admins[a].note
             /\ admins[a].response.kind = "conflict" =>
                   /\ admins[a].response.state = submission
                   /\ \E w \in Winners : admins[a].response.state.status = admins[w].outcome
             /\ (admins[a].pc = "done" /\ admins[a].response.kind # "invalid") =>
                   Cardinality(Winners) = 1)
    /\ [][submission.status # "pending" => submission' = submission]_vars

C20_Witness ==
    /\ \A a \in Admins : admins[a].pc = "done"
    /\ \E w, l \in Admins :
          /\ admins[w].response.kind = "ok"
          /\ admins[l].response.kind = "conflict"
          /\ admins[l].seen = "pending"
          /\ admins[l].outcome # admins[w].outcome

\* C21: decide is legal only while the status is pending. A decide call on
\* an approved or rejected submission ends in a conflict that carries the
\* stored state, and no step changes status, reviewed_at or review_note of
\* a decided submission: the three fields are written at most once.
C21_DecideOnlyWhilePending ==
    /\ [][submission.status # "pending" =>
             /\ submission'.status = submission.status
             /\ submission'.reviewed_at = submission.reviewed_at
             /\ submission'.review_note = submission.review_note]_vars
    /\ [][\A a \in Admins :
             (/\ admins[a].pc = "deciding" /\ admins'[a].pc = "done"
              /\ submission.status # "pending")
                => /\ admins'[a].response = ConflictError(submission)
                   /\ submission' = submission]_vars
    /\ [](\A a \in Admins :
             (admins[a].pc = "done" /\ admins[a].seen \in {"approved", "rejected"})
                => admins[a].response = ConflictError(submission))

C21_Witness ==
    \E a \in Admins :
       /\ admins[a].pc = "done"
       /\ admins[a].seen \in {"approved", "rejected"}
       /\ admins[a].response.kind = "conflict"
       /\ admins[a].outcome # submission.status

\* the admins whose record_first_view call wrote the field
Writers == {a \in Admins : admins[a].wrote}

\* C22: first_viewed_at is set at most once. A record_first_view call
\* writes it only when it is null, a call made after it is set leaves it
\* unchanged, and of any number of concurrent calls exactly one writes.
C22_FirstViewSetOnce ==
    /\ [][~submission.first_viewed_at.isNull =>
             submission'.first_viewed_at = submission.first_viewed_at]_vars
    /\ [][\A a \in Admins :
             (admins[a].pc = "viewing" /\ admins'[a].pc = "idle") =>
                IF submission.first_viewed_at.isNull
                THEN submission'.first_viewed_at = admins[a].stamp /\ admins'[a].wrote
                ELSE submission' = submission /\ admins'[a].wrote = admins[a].wrote]_vars
    /\ [](Cardinality(Writers) <= 1)
    /\ []((\E a \in Admins : admins[a].views > 0) =>
             /\ Cardinality(Writers) = 1
             /\ ~submission.first_viewed_at.isNull)

C22_Witness ==
    /\ \A a \in Admins : admins[a].pc = "idle" /\ admins[a].views > 0
    /\ \E w, l \in Admins :
          /\ admins[w].wrote /\ ~admins[l].wrote
          /\ admins[l].seen.isNull
          /\ admins[l].stamp # submission.first_viewed_at
          /\ admins[w].views = MaxViews

\* the request in hand fails a check that is configured
Abusive ==
    \/ gate.config.verification /\ gate.request.token # "valid"
    \/ gate.config.threshold > 0 /\ gate.request.elapsed < gate.config.threshold

\* C23: the gate and the creation of the submission are all-or-nothing. A
\* request whose token is missing, invalid or expired while verification is
\* configured, or whose fill time is under the configured threshold, is
\* rejected and leaves no Submission or Answer row; an accepted request
\* stores a pending submission with all of its answers; the tables never
\* hold a submission with part of its answers.
C23_GateAllOrNothing ==
    /\ gate.store = NoRows \/
          gate.store = [submission |-> "pending", answers |-> gate.request.answers]
    /\ (gate.pc = "done" /\ Abusive) =>
          gate.response = "AbuseRejected" /\ gate.store = NoRows
    /\ gate.response = "created" <=> gate.store # NoRows
    /\ gate.response \in {"AbuseRejected", "error"} => gate.store = NoRows

C23_Witness ==
    /\ gate.pc = "done" /\ gate.response = "AbuseRejected"
    /\ gate.config.threshold = FillThreshold /\ gate.request.elapsed = 1
    /\ gate.request.token = "valid"
    /\ Len(gate.request.answers) = MaxAnswers
    /\ gate.store = NoRows

\* C24 (as claimed): when a submit call rejects, submitting and submitted
\* are false, the confirm dialog is still open, and the answers, the
\* position and the player name are as they were; when it resolves,
\* submitted is true and submitting is false.
C24_FailedSubmitLeavesDialogOpen ==
    [][/\ lastEvent' = "rejected" =>
             /\ ~submitting' /\ ~submitted'
             /\ showConfirm'
             /\ answers' = answers
             /\ currentIndex' = currentIndex
             /\ playerName' = playerName
       /\ lastEvent' = "resolved" => submitted' /\ ~submitting']_vars

\* C25: handleSubmit makes a submitSurvey call exactly when the trimmed
\* player name is non-empty and a token is held if the loaded security
\* configuration enables bot verification; otherwise it reports an error,
\* makes no call and leaves submitting as it was, false.
C25_CallOnlyWithNameAndToken ==
    [][lastEvent' = "handleSubmit" =>
          IF Trim(playerName) # <<>> /\ (turnstileEnabled => turnstileToken # NoToken)
          THEN /\ CallMade /\ submitting'
               /\ NewCall.player_name = Trim(playerName)
          ELSE /\ calls' = calls
               /\ toast' \in {Toast("enter_name", 0, {}), Toast("complete_verification", 0, {})}
               /\ submitting' = submitting
               /\ (calls = <<>> => ~submitting')]_vars

C25_Witness ==
    /\ lastEvent = "handleSubmit"
    /\ Trim(playerName) # <<>>
    /\ turnstileEnabled /\ turnstileToken = NoToken
    /\ toast = Toast("complete_verification", 0, {})
    /\ calls = <<>> /\ ~submitting

\* C26: isQuestionAnswered is false for a question with no entry in the
\* answer map; otherwise single/boolean is answered iff value is defined and
\* is not the empty string (false counts), multiple iff the values list is
\* non-empty, text iff some character of the text is not a space, image iff
\* the images list is non-empty.
C26_AnsweredPerType ==
    evalResult.done =>
        LET q == evalResult.question
            has == \E i \in 1..Len(answers) : answers[i].question_id = q.id
            a == MapGet(answers, q.id)
        IN evalResult.answered <=>
             /\ has
             /\ \/ /\ q.type \in {"single", "boolean"}
                   /\ a.k = "value" /\ a.value.t # "undefined" /\ a.value # Str("")
                \/ /\ q.type = "multiple"
                   /\ a.k = "values" /\ a.values # <<>>
                \/ /\ q.type = "text"
                   /\ a.k = "text" /\ \E i \in 1..Len(a.text) : a.text[i] # " "
                \/ /\ q.type = "image"
                   /\ a.k = "images" /\ a.images # <<>>

C26_Witness ==
    /\ evalResult.done
    /\ evalResult.question.type = "boolean"
    /\ answers = <<[question_id |-> 1, content |-> ValueContent(Bool(FALSE))]>>
    /\ evalResult.answered

\* C27 (as claimed): a failed submit call clears the stored token before
\* another submit can be made, so a submit call made straight after a
\* rejection, with no new verification in between, carries no token.
C27_NoTokenResentAfterFailure ==
    [][lastEvent = "rejected" /\ CallMade => NewCall.turnstile_token = NoToken]_vars

\* question i depends on itself or lies on a cycle of depends_on links
OnCycle(i) == Reaches(i, i, Len(survey))

\* C28: a question whose condition depends on itself or lies on a
\* dependency cycle is never visible, never has an entry in the answer map
\* and never appears in the payload of a submit call.
C28_CycleQuestionNeverShown ==
    survey # NullSurvey =>
        \A i \in 1..Len(survey) :
            OnCycle(i) =>
                /\ ~isQuestionVisible(survey[i], answers)
                /\ ~MapHas(answers, survey[i].id)
                /\ \A c \in 1..Len(calls) : ~MapHas(calls[c].answers, survey[i].id)

C28_Witness ==
    /\ survey = SurveyCycle
    /\ OnCycle(1) /\ OnCycle(2) /\ OnCycle(3) /\ ~OnCycle(4) /\ ~OnCycle(5)
    /\ visibleQuestions = <<survey[4]>>
    /\ calls # <<>>
    /\ MapKeys(calls[1].answers) = {54}

\* every condition refers to a question strictly earlier in the list
BackwardOnly ==
    \A i \in 1..Len(survey) :
        survey[i].condition.has => DependsOnPosition(i) \in 1..(i - 1)

\* C29: in a survey whose conditions all refer to strictly earlier
\* questions, changing the answer of the question on display leaves
\* currentIndex unchanged and leaves that question, and all before it, at
\* the same places of the recomputed visible subsequence.
C29_AnswerKeepsPosition ==
    [][lastEvent' = "answer" /\ BackwardOnly =>
          /\ currentIndex' = currentIndex
          /\ currentIndex + 1 <= Len(VisibleOf(survey, answers'))
          /\ SubSeq(VisibleOf(survey, answers'), 1, currentIndex + 1)
                = SubSeq(visibleQuestions, 1, currentIndex + 1)]_vars

\* the first answer of the chain was changed on a second visit, which hid
\* the question after it
C29_Witness ==
    /\ lastEvent = "answer"
    /\ survey = SurveyChain /\ BackwardOnly
    /\ currentIndex = 0
    /\ MapGet(answers, 21) = ValueContent(Str("B"))
    /\ MapHas(answers, 22)
    /\ ~isQuestionVisible(survey[2], answers)

\* C30 (as claimed): when an upload completes, the image list becomes the
\* list as it stood at that moment with the newly uploaded URLs appended.
C30_CompletionAppendsToCurrentList ==
    [][lastEvent' = "uploaded" =>
          \E i \in 1..Len(uploader.uploads) :
              /\ uploader'.uploads = RemoveAt(uploader.uploads, i)
              /\ uploader'.value = uploader.value \o uploader.uploads[i].uploadedUrls]_vars

====
